---- MODULE Spec2Model ----
(***************************************************************************)
(* A model of urban.py, the Urban Dictionary client: the Definition record *)
(* and its todict(), define(), the optional play_sample() and              *)
(* submit_word(), together with the module's import-time initialisation.   *)
(*                                                                         *)
(* Every call is one atomic action.  The environment (the HTTP service,    *)
(* the temporary-file facility, the playback facility) answers inside the  *)
(* action through \E.  Python values are modelled as follows:              *)
(*   - a str that the code only passes around is a TLA+ string;            *)
(*   - a str that the code parses (written_on) is a sequence of            *)
(*     one-character strings;                                              *)
(*   - a list is a sequence (1-based here, 0-based in Python);             *)
(*   - an object is a record whose DOMAIN is the set of its attributes;    *)
(*   - the result of a call is Return(type, v) or Raise(type, args).       *)
(***************************************************************************)
EXTENDS Integers, Sequences, FiniteSets, TLC

\* ------------------------------------------------------------------------
\* Bounds of the model
\* ------------------------------------------------------------------------

\* Longest result list the service answers with.
MaxList == 2

\* Integer selectors and sample indexes range over -MaxIndex .. MaxIndex.
MaxIndex == 2

\* ------------------------------------------------------------------------
\* Python helpers
\* ------------------------------------------------------------------------

\* A result is tagged with the Python type of the value returned, or with
\* the class of the exception raised.
Return(type, v) == [kind |-> "return", type |-> type, value |-> v]

Raise(type, args) == [kind |-> "raise", type |-> type, args |-> args]

\* The value of a call that falls off the end of a function body.
None == [py |-> "None"]

\* seq[i] of a Python list: 0-based, a negative i counts from the end,
\* anything outside -len .. len-1 raises IndexError.
PyIndex(seq, i) ==
    IF i >= 0 /\ i < Len(seq) THEN Return("item", seq[i + 1])
    ELSE IF i < 0 /\ i >= -Len(seq) THEN Return("item", seq[Len(seq) + i + 1])
    ELSE Raise("IndexError", [message |-> "list index out of range"])

\* obj.name : AttributeError when the instance has no such attribute.
GetAttr(obj, name) ==
    IF name \in DOMAIN obj THEN Return("attribute", obj[name])
    ELSE Raise("AttributeError", [name |-> name])

\* ------------------------------------------------------------------------
\* datetime.datetime.strptime(s, '%Y-%m-%dT%H:%M:%S.%fZ')
\* ------------------------------------------------------------------------

DigitVal ==
    [c \in {"0", "1", "2", "3", "4", "5", "6", "7", "8", "9"} |->
        CASE c = "0" -> 0 [] c = "1" -> 1 [] c = "2" -> 2 [] c = "3" -> 3
          [] c = "4" -> 4 [] c = "5" -> 5 [] c = "6" -> 6 [] c = "7" -> 7
          [] c = "8" -> 8 [] c = "9" -> 9]

IsDigit(c) == c \in DOMAIN DigitVal

\* The format string, directive by directive.  A directive reads between
\* lo and hi digits; a literal is compared ignoring case (the format's
\* regular expression is compiled with IGNORECASE).
WrittenOnFormat ==
    << [dir |-> "Y", lo |-> 4, hi |-> 4], [lit |-> "-"],
       [dir |-> "m", lo |-> 1, hi |-> 2], [lit |-> "-"],
       [dir |-> "d", lo |-> 1, hi |-> 2], [lit |-> "T"],
       [dir |-> "H", lo |-> 1, hi |-> 2], [lit |-> ":"],
       [dir |-> "M", lo |-> 1, hi |-> 2], [lit |-> ":"],
       [dir |-> "S", lo |-> 1, hi |-> 2], [lit |-> "."],
       [dir |-> "f", lo |-> 1, hi |-> 6], [lit |-> "Z"] >>

UpperCase(c) == CASE c = "t" -> "T" [] c = "z" -> "Z" [] OTHER -> c

RECURSIVE DigitRun(_, _, _)
\* How many digits, at most hi, stand in s from position pos on.
DigitRun(s, pos, hi) ==
    IF hi = 0 \/ pos > Len(s) \/ ~IsDigit(s[pos]) THEN 0
    ELSE 1 + DigitRun(s, pos + 1, hi - 1)

RECURSIVE Number(_, _, _)
\* The decimal value of the n digits of s that start at pos.
Number(s, pos, n) ==
    IF n = 0 THEN 0
    ELSE 10 * Number(s, pos, n - 1) + DigitVal[s[pos + n - 1]]

RECURSIVE Pow10(_)
Pow10(n) == IF n = 0 THEN 1 ELSE 10 * Pow10(n - 1)

RECURSIVE MatchFormat(_, _, _, _)
\* Match s from pos against the format from item fi on; found collects
\* the directives read so far.  %f is padded on the right to six digits.
MatchFormat(s, pos, fi, found) ==
    IF fi > Len(WrittenOnFormat)
    THEN [ok |-> pos = Len(s) + 1, found |-> found]
    ELSE LET item == WrittenOnFormat[fi] IN
         IF "lit" \in DOMAIN item
         THEN IF pos <= Len(s) /\ UpperCase(s[pos]) = item.lit
              THEN MatchFormat(s, pos + 1, fi + 1, found)
              ELSE [ok |-> FALSE, found |-> found]
         ELSE LET n == DigitRun(s, pos, item.hi)
                  v == IF item.dir = "f"
                       THEN Number(s, pos, n) * Pow10(6 - n)
                       ELSE Number(s, pos, n)
              IN  IF n >= item.lo
                  THEN MatchFormat(s, pos + n, fi + 1,
                                   [found EXCEPT ![item.dir] = v])
                  ELSE [ok |-> FALSE, found |-> found]

IsLeap(y) == (y % 4 = 0 /\ y % 100 # 0) \/ y % 400 = 0

DaysInMonth(y, m) ==
    IF m = 2 THEN (IF IsLeap(y) THEN 29 ELSE 28)
    ELSE IF m \in {4, 6, 9, 11} THEN 30 ELSE 31

\* The checks on what the format matched: the ranges the directives
\* accept, then the ranges datetime accepts.
CheckedDatetime(r) ==
    IF ~r.ok
       \/ r.found["m"] \notin 1..12 \/ r.found["d"] \notin 1..31
       \/ r.found["H"] \notin 0..23 \/ r.found["M"] \notin 0..59
       \/ r.found["S"] \notin 0..61
    THEN Raise("ValueError", [message |-> "does not match format"])
    ELSE IF r.found["Y"] < 1
            \/ r.found["d"] > DaysInMonth(r.found["Y"], r.found["m"])
            \/ r.found["S"] > 59
    THEN Raise("ValueError", [message |-> "out of range"])
    ELSE Return("datetime",
                [year |-> r.found["Y"], month |-> r.found["m"],
                 day |-> r.found["d"], hour |-> r.found["H"],
                 minute |-> r.found["M"], second |-> r.found["S"],
                 microsecond |-> r.found["f"]])

strptime(s) ==
    CheckedDatetime(
        MatchFormat(s, 1, 1,
                    [dir \in {"Y", "m", "d", "H", "M", "S", "f"} |-> 0]))

\* ------------------------------------------------------------------------
\* class Definition
\* ------------------------------------------------------------------------

\* Definition.__init__ : the attributes the constructor assigns.
Definition(word, definition, example, author, permalink, upvotes, downvotes, audio_samples, written_on, raw_data, index) ==
    [word          |-> word,
     definition    |-> definition,
     example       |-> example,
     author        |-> author,
     permalink     |-> permalink,
     upvotes       |-> upvotes,
     downvotes     |-> downvotes,
     audio_samples |-> audio_samples,
     written_on    |-> written_on,
     raw_data      |-> raw_data,
     index         |-> index]

\* Definition.todict : every value is read off the instance; the first
\* attribute that is missing raises AttributeError.
todict(self) ==
    LET names == <<"word", "definition", "example", "author", "permalink",
                   "upvotes", "downvotes", "sample_samples", "written_on",
                   "raw_data", "index">>
        missing == {i \in 1..Len(names) : names[i] \notin DOMAIN self}
    IN  IF missing # {}
        THEN GetAttr(self, names[CHOOSE i \in missing :
                                     \A j \in missing : i <= j])
        ELSE Return("dict",
                    [k \in {names[i] : i \in 1..Len(names)} |-> self[k]])

\* ------------------------------------------------------------------------
\* The service: what the lookup endpoint can answer
\* ------------------------------------------------------------------------

Words == {"foo", "bar"}

GoodStamp ==
    <<"2","0","2","0","-","0","1","-","0","1","T","0","0",":","0","0",":",
      "0","0",".","0","0","0","0","0","0","Z">>

ShortStamp ==
    <<"2","0","2","1","-","1","2","-","3","1","t","2","3",":","5","9",":",
      "5","9",".","5","z">>

DateOnlyStamp == <<"2","0","2","0","-","0","1","-","0","1">>

BadDayStamp ==
    <<"2","0","2","1","-","0","2","-","3","0","T","1","0",":","0","0",":",
      "0","0",".","0","0","0","0","0","0","Z">>

\* Entries of the 'list' field of the lookup endpoint's JSON body.
ServiceEntries ==
    { [word |-> "foo", definition |-> "bar", example |-> "ex",
       author |-> "au", permalink |-> "http://x",
       thumbs_up |-> 5, thumbs_down |-> 1,
       sound_urls |-> <<>>, written_on |-> GoodStamp],
      [word |-> "Foo", definition |-> "baz", example |-> "",
       author |-> "bo", permalink |-> "http://y",
       thumbs_up |-> 2, thumbs_down |-> 7,
       sound_urls |-> <<"http://s/1.mp3", "http://s/2.mp3">>,
       written_on |-> ShortStamp],
      [word |-> "foo bar", definition |-> "qux", example |-> "ex3",
       author |-> "cy", permalink |-> "http://z",
       thumbs_up |-> 0, thumbs_down |-> 0,
       sound_urls |-> <<"http://s/3.mp3">>, written_on |-> BadDayStamp],
      [word |-> "FOO", definition |-> "quux", example |-> "ex4",
       author |-> "di", permalink |-> "http://w",
       thumbs_up |-> 9, thumbs_down |-> 3,
       sound_urls |-> <<>>, written_on |-> DateOnlyStamp] }

ResultLists ==
    UNION {[1..n -> ServiceEntries] : n \in 0..MaxList}

StatusCodes == {200, 404, 500}

\* A response of the service: the status line and the decoded JSON body.
Responses ==
    [status_code : StatusCodes, json : [list : ResultLists]]

\* The values a caller passes as define()'s index: an int, None, or a
\* value of another type (the string "all").
Selectors ==
    [t : {"int"}, v : -MaxIndex..MaxIndex]
        \cup {[t |-> "none", v |-> 0], [t |-> "str", v |-> 0]}

IntSel(k) == [t |-> "int", v |-> k]

NoneSel == [t |-> "none", v |-> 0]

\* ------------------------------------------------------------------------
\* define(word, index = 0)
\* ------------------------------------------------------------------------

\* The constructor call of lines 109-119 and 121-131: the entry's fields,
\* the parsed timestamp (whose failure is the call's failure), the entry
\* itself and the position.
NewDefinition(definition, stamp, index) ==
    IF stamp.kind = "raise" THEN stamp
    ELSE Return("Definition",
                Definition(definition.word,
                           definition.definition,
                           definition.example,
                           definition.author,
                           definition.permalink,
                           definition.thumbs_up,
                           definition.thumbs_down,
                           definition.sound_urls,
                           stamp.value,
                           definition,
                           index))

\* Lines 104-119 once definitions[index] has been evaluated to got.
DefinitionAt(got, index) ==
    IF got.kind = "raise" THEN got
    ELSE NewDefinition(got.value, strptime(got.value.written_on), index)

\* DefineOne as it would be had the record been built with position 0
\* instead of the requested index.
DefineOneIndexZero(word, definitions, index) ==
    IF Len(definitions) > index
    THEN DefinitionAt(PyIndex(definitions, index), 0)
    ELSE Raise("DefinitionOutOfScopeError",
               [word |-> word, definition_index |-> index])

\* The isinstance(index, int) branch.
DefineOne(word, definitions, index) ==
    IF Len(definitions) > index
    THEN DefinitionAt(PyIndex(definitions, index), index)
    ELSE Raise("DefinitionOutOfScopeError",
               [word |-> word, definition_index |-> index])

\* The positions (from 0) of the entries whose timestamp does not parse.
Unparsable(definitions) ==
    {c \in 0..(Len(definitions) - 1) :
        strptime(definitions[c + 1].written_on).kind = "raise"}

Least(S) == CHOOSE c \in S : \A b \in S : c <= b

\* The list comprehension over enumerate(definitions, start), given the
\* positions that do not parse: the first of them raises out of the
\* comprehension.
Comprehension(definitions, bad, start) ==
    IF bad # {}
    THEN strptime(definitions[Least(bad) + 1].written_on)
    ELSE Return("list",
                [i \in 1..Len(definitions) |->
                    NewDefinition(definitions[i],
                                  strptime(definitions[i].written_on),
                                  start + i - 1).value])

\* DefineAll as it would be with enumerate(definitions, 1).
DefineAllFromOne(definitions) ==
    Comprehension(definitions, Unparsable(definitions), 1)

\* The index is None branch.
DefineAll(definitions) ==
    Comprehension(definitions, Unparsable(definitions), 0)

LookupUrl(word) ==
    [method |-> "GET",
     url |-> <<"http://api.urbandictionary.com/v0/define?term=", word>>]

HttpError(word, response) ==
    Raise("HTTPException",
          [message |-> "Error fetching definition for word",
           word |-> word,
           status_code |-> response.status_code])

\* define as it would be had the selector been examined before the empty
\* list.
defineSelectorFirst(word, index, response) ==
    IF response.status_code = 200
    THEN [http |-> <<LookupUrl(word)>>,
          json_decoded |-> TRUE,
          outcome |->
              IF index.t = "int"
              THEN DefineOne(word, response.json.list, index.v)
              ELSE IF response.json.list = <<>>
              THEN Raise("DefinitionNotFoundError", [word |-> word])
              ELSE IF index.t = "none"
              THEN DefineAll(response.json.list)
              ELSE Return("NoneType", None)]
    ELSE [http |-> <<LookupUrl(word)>>,
          json_decoded |-> FALSE,
          outcome |-> HttpError(word, response)]

\* define as it would be had only server errors (5xx) been rejected.
defineClientErrorsPass(word, index, response) ==
    IF response.status_code < 500
    THEN [http |-> <<LookupUrl(word)>>,
          json_decoded |-> TRUE,
          outcome |->
              IF response.json.list = <<>>
              THEN Raise("DefinitionNotFoundError", [word |-> word])
              ELSE IF index.t = "int"
              THEN DefineOne(word, response.json.list, index.v)
              ELSE IF index.t = "none"
              THEN DefineAll(response.json.list)
              ELSE Return("NoneType", None)]
    ELSE [http |-> <<LookupUrl(word)>>,
          json_decoded |-> FALSE,
          outcome |-> HttpError(word, response)]

\* The whole of define(): its result, the requests it issued and whether
\* it decoded the response body (data = response.json(); definitions =
\* data['list']).
define(word, index, response) ==
    IF response.status_code = 200
    THEN [http |-> <<LookupUrl(word)>>,
          json_decoded |-> TRUE,
          outcome |->
              IF response.json.list = <<>>
              THEN Raise("DefinitionNotFoundError", [word |-> word])
              ELSE IF index.t = "int"
              THEN DefineOne(word, response.json.list, index.v)
              ELSE IF index.t = "none"
              THEN DefineAll(response.json.list)
              ELSE Return("NoneType", None)]
    ELSE [http |-> <<LookupUrl(word)>>,
          json_decoded |-> FALSE,
          outcome |-> HttpError(word, response)]

\* ------------------------------------------------------------------------
\* play_sample(word, index = 0, block = True)
\* ------------------------------------------------------------------------

SampleUrl(url) == [method |-> "GET", url |-> url]

\* Lines 162-167: the object whose samples are read.  src is the first
\* argument: a str, a Definition instance or a value of another type.
SampleSource(src, response) ==
    IF src.t = "str" THEN define(src.s, IntSel(0), response)
    ELSE [http |-> <<>>,
          json_decoded |-> FALSE,
          outcome |->
              IF src.t = "Definition" THEN Return("Definition", src.obj)
              ELSE Raise("TypeError",
                         [message |-> "word must be a string or Definition"])]

\* samples[index] unless reading the attribute has raised.
SampleAt(samples, index) ==
    IF samples.kind = "raise" THEN samples
    ELSE PyIndex(samples.value, index)

\* <object>.sample_samples[index] unless obtaining the object has raised.
SampleOf(found, index) ==
    IF found.kind = "raise" THEN found
    ELSE SampleAt(GetAttr(found.value, "sample_samples"), index)

\* Lines 168-169: only IndexError is translated; every other exception
\* leaves play_sample as it is.
ExceptIndexError(src, index, url) ==
    IF url.kind = "raise" /\ url.type = "IndexError"
    THEN Raise("DefinitionOutOfScopeError",
               [word |-> <<src, " (sample)">>, definition_index |-> index])
    ELSE url

ResolvedFrom(src, index, looked) ==
    [http |-> looked.http,
     json_decoded |-> looked.json_decoded,
     outcome |-> ExceptIndexError(src, index, SampleOf(looked.outcome, index))]

\* Lines 161-169: resolve the sample URL.
ResolveSample(src, index, response) ==
    ResolvedFrom(src, index, SampleSource(src, response))

NoSound(src) ==
    Raise("DefinitionNoSoundAvailableError", [word |-> src])

\* Lines 171-180: download into a NamedTemporaryFile and play it.  tmp_ok,
\* get_ok and play_ok say whether NamedTemporaryFile(), requests.get() and
\* playsound() succeed.  file.close() is the last statement of the try
\* body; the bare except only raises.
DownloadAndPlay(src, url, block, tmp_ok, get_ok, play_ok) ==
    IF ~tmp_ok
    THEN [http |-> <<>>, temp_file |-> "none", played |-> "no",
          outcome |-> NoSound(src)]
    ELSE IF ~get_ok
    THEN [http |-> <<SampleUrl(url)>>, temp_file |-> "open", played |-> "no",
          outcome |-> NoSound(src)]
    ELSE IF ~play_ok
    THEN [http |-> <<SampleUrl(url)>>, temp_file |-> "open", played |-> "no",
          outcome |-> NoSound(src)]
    ELSE [http |-> <<SampleUrl(url)>>, temp_file |-> "closed",
          played |-> IF block THEN "blocking" ELSE "background",
          outcome |-> Return("NoneType", None)]

\* The effects of the two try blocks, one after the other.
Sequenced(resolved, done) ==
    [http |-> resolved.http \o done.http,
     json_decoded |-> resolved.json_decoded,
     temp_file |-> done.temp_file,
     played |-> done.played,
     outcome |-> done.outcome]

PlayResolved(src, block, resolved, tmp_ok, get_ok, play_ok) ==
    IF resolved.outcome.kind = "raise"
    THEN [http |-> resolved.http,
          json_decoded |-> resolved.json_decoded,
          temp_file |-> "none",
          played |-> "no",
          outcome |-> resolved.outcome]
    ELSE Sequenced(resolved,
                   DownloadAndPlay(src, resolved.outcome.value, block,
                                   tmp_ok, get_ok, play_ok))

play_sample(src, index, block, response, tmp_ok, get_ok, play_ok) ==
    PlayResolved(src, block, ResolveSample(src, index, response),
                 tmp_ok, get_ok, play_ok)

\* ------------------------------------------------------------------------
\* submit_word(word, definition, example, tags, giphy_url = None)
\* ------------------------------------------------------------------------

RECURSIVE Join(_, _)
\* sep.join(parts), as the sequence of its pieces.
Join(sep, parts) ==
    IF Len(parts) = 0 THEN <<>>
    ELSE IF Len(parts) = 1 THEN parts
    ELSE <<Head(parts), sep>> \o Join(sep, Tail(parts))

submit_word(word, definition, example, tags, giphy_url, status_code) ==
    [http |-> <<[method |-> "POST",
                 url |-> "http://api.urbandictionary.com/v0/define",
                 data |-> [term |-> word,
                           definition |-> definition,
                           example |-> example,
                           tags |-> Join(",", tags),
                           giphy |-> IF giphy_url.t = "str"
                                        /\ giphy_url.s # ""
                                     THEN giphy_url.s ELSE ""]]>>,
     outcome |-> IF status_code # 200
                 THEN Raise("HTTPException",
                            [message |-> "Error submitting word",
                             word |-> word,
                             status_code |-> status_code])
                 ELSE Return("NoneType", None)]

\* ------------------------------------------------------------------------
\* Module initialisation (import urban)
\* ------------------------------------------------------------------------

\* ModuleNames as it would be had play_sample been defined outside the try
\* block.
ModuleNamesUnconditional(installed) ==
    {"WARN_IF_PLAYSOUND_IS_UNAVAILABLE", "Definition",
     "DefinitionNotFoundError", "DefinitionOutOfScopeError", "define",
     "submit_word", "DefinitionNoSoundAvailableError", "play_sample"}
      \cup (IF installed THEN {"playsound"} ELSE {})

\* The names the module body binds.  play_sample and
\* DefinitionNoSoundAvailableError are bound inside the try block, after
\* 'from playsound import playsound' has succeeded.
ModuleNames(installed) ==
    {"WARN_IF_PLAYSOUND_IS_UNAVAILABLE", "Definition",
     "DefinitionNotFoundError", "DefinitionOutOfScopeError", "define",
     "submit_word"}
      \cup (IF installed
            THEN {"playsound", "DefinitionNoSoundAvailableError",
                  "play_sample"}
            ELSE {})

\* How many times the except ImportError branch prints its notice.
ImportNotices(installed, warn) ==
    IF ~installed /\ warn THEN 1 ELSE 0

\* ------------------------------------------------------------------------
\* What callers hold and pass
\* ------------------------------------------------------------------------

\* The Definition instances define() hands out: for a list of n entries,
\* every requested index from -n to n - 1 that the selectors reach.
FetchedDefinitions ==
    {o.value :
        o \in {x \in {DefineOne("foo", [i \in 1..MaxList |-> e], k) :
                         e \in ServiceEntries,
                         k \in (-MaxList..(MaxList - 1))
                                 \cap (-MaxIndex..MaxIndex)} :
                  x.kind = "return"}}

\* obj after the caller's statement  obj.sample_samples = obj.audio_samples
\* (an instance accepts attributes its constructor never set).
WithSampleSamples(obj) ==
    [n \in DOMAIN obj \cup {"sample_samples"} |->
        IF n = "sample_samples" THEN obj.audio_samples ELSE obj[n]]

DefinitionObjects ==
    FetchedDefinitions \cup {WithSampleSamples(o) : o \in FetchedDefinitions}

\* First arguments of play_sample: a str, a Definition, something else.
Sources ==
    [t : {"str"}, s : Words]
        \cup [t : {"Definition"}, obj : DefinitionObjects]
        \cup {[t |-> "other"]}

GiphyUrls ==
    {[t |-> "none", s |-> ""], [t |-> "str", s |-> ""],
     [t |-> "str", s |-> "http://g"]}

TagLists == {<<>>, <<"a">>, <<"a", "b", "c">>}

NoResponse == [status_code |-> 0, json |-> [list |-> <<>>]]

\* ------------------------------------------------------------------------
\* State
\* ------------------------------------------------------------------------

VARIABLES
    playsound_installed,                \* can 'playsound' be imported
    WARN_IF_PLAYSOUND_IS_UNAVAILABLE,   \* the module attribute of line 5
    pc,                                 \* "start", "loaded" or "returned"
    namespace,                          \* names bound in the module
    notices,                            \* advisory notices printed
    call,                               \* the latest call and its arguments
    response,                           \* the lookup response it received
    outcome,                            \* what the call returned or raised
    http_log,                           \* the HTTP requests the call issued
    json_decoded,                       \* did the call run response.json()
    temp_file,                          \* "none", "open" or "closed"
    played                              \* "no", "blocking" or "background"

vars ==
    <<playsound_installed, WARN_IF_PLAYSOUND_IS_UNAVAILABLE, pc, namespace,
      notices, call, response, outcome, http_log, json_decoded, temp_file,
      played>>

moduleVars ==
    <<playsound_installed, WARN_IF_PLAYSOUND_IS_UNAVAILABLE, namespace,
      notices>>

\* Before the module body runs.  Whether playsound can be imported is the
\* environment's choice; the warning flag is True as shipped (line 5) and
\* False once urban.py has been edited the way the notice suggests.
Init ==
    /\ playsound_installed \in BOOLEAN
    /\ WARN_IF_PLAYSOUND_IS_UNAVAILABLE \in BOOLEAN
    /\ pc = "start"
    /\ namespace = {}
    /\ notices = 0
    /\ call = [op |-> "none"]
    /\ response = NoResponse
    /\ outcome = Return("NoneType", None)
    /\ http_log = <<>>
    /\ json_decoded = FALSE
    /\ temp_file = "none"
    /\ played = "no"

\* Executing the module body once.
ImportModule ==
    /\ pc = "start"
    /\ pc' = "loaded"
    /\ namespace' = ModuleNames(playsound_installed)
    /\ notices' = notices + ImportNotices(playsound_installed,
                                          WARN_IF_PLAYSOUND_IS_UNAVAILABLE)
    /\ UNCHANGED <<playsound_installed, WARN_IF_PLAYSOUND_IS_UNAVAILABLE,
                   call, response, outcome, http_log, json_decoded,
                   temp_file, played>>

\* urban.<name>(...) when the module never bound <name>.
Unbound(name) ==
    [http |-> <<>>, json_decoded |-> FALSE, temp_file |-> "none",
     played |-> "no", outcome |-> Raise("AttributeError", [name |-> name])]

\* The call's result and effects become the state.
Finish(res) ==
    /\ outcome' = res.outcome
    /\ http_log' = res.http
    /\ json_decoded' = res.json_decoded
    /\ temp_file' = res.temp_file
    /\ played' = res.played

\* define() touches no temporary file and plays nothing.
Lookup(res) ==
    [http |-> res.http, json_decoded |-> res.json_decoded,
     temp_file |-> "none", played |-> "no", outcome |-> res.outcome]

CallDefine ==
    /\ pc = "loaded"
    /\ pc' = "returned"
    /\ \E word \in Words, index \in Selectors, r \in Responses :
          /\ call' = [op |-> "define", word |-> word, index |-> index]
          /\ response' = r
          /\ Finish(Lookup(define(word, index, r)))
    /\ UNCHANGED moduleVars

\* What can go wrong in the second try block, when it is reached.
Failures(resolved) ==
    IF resolved.outcome.kind = "return"
    THEN {"nothing", "tempfile", "get", "playsound"}
    ELSE {"nothing"}

CallPlaySample ==
    /\ pc = "loaded"
    /\ pc' = "returned"
    /\ \E src \in Sources, index \in -MaxIndex..MaxIndex, block \in BOOLEAN :
          /\ call' = [op |-> "play_sample", src |-> src, index |-> index,
                      block |-> block]
          /\ IF "play_sample" \in namespace
             THEN \E r \in (IF src.t = "str" THEN Responses
                            ELSE {NoResponse}) :
                  \E fails \in Failures(ResolveSample(src, index, r)) :
                     /\ response' = r
                     /\ Finish(play_sample(src, index, block, r,
                                           fails # "tempfile",
                                           fails # "get",
                                           fails # "playsound"))
             ELSE /\ response' = NoResponse
                  /\ Finish(Unbound("play_sample"))
    /\ UNCHANGED moduleVars

CallTodict ==
    /\ pc = "loaded"
    /\ pc' = "returned"
    /\ \E self \in DefinitionObjects :
          /\ call' = [op |-> "todict", self |-> self]
          /\ outcome' = todict(self)
    /\ response' = NoResponse
    /\ http_log' = <<>>
    /\ json_decoded' = FALSE
    /\ temp_file' = "none"
    /\ played' = "no"
    /\ UNCHANGED moduleVars

\* submit_word() decodes no body, touches no temporary file and plays
\* nothing.
Submitted(res) ==
    [http |-> res.http, json_decoded |-> FALSE, temp_file |-> "none",
     played |-> "no", outcome |-> res.outcome]

CallSubmitWord ==
    /\ pc = "loaded"
    /\ pc' = "returned"
    /\ \E word \in Words, tags \in TagLists, giphy_url \in GiphyUrls,
          status_code \in StatusCodes :
          /\ call' = [op |-> "submit_word", word |-> word, tags |-> tags,
                      giphy_url |-> giphy_url]
          /\ response' = [status_code |-> status_code,
                          json |-> [list |-> <<>>]]
          /\ Finish(Submitted(submit_word(word, "def", "ex", tags,
                                          giphy_url, status_code)))
    /\ UNCHANGED moduleVars

\* The call is over: its result or its exception is with the caller and
\* nothing of it stays behind in the module, which is ready for the next
\* call.
ReturnToCaller ==
    /\ pc = "returned"
    /\ pc' = "loaded"
    /\ call' = [op |-> "none"]
    /\ response' = NoResponse
    /\ outcome' = Return("NoneType", None)
    /\ http_log' = <<>>
    /\ json_decoded' = FALSE
    /\ temp_file' = "none"
    /\ played' = "no"
    /\ UNCHANGED moduleVars

Next ==
    \/ ImportModule
    \/ CallDefine
    \/ CallPlaySample
    \/ CallTodict
    \/ CallSubmitWord
    \/ ReturnToCaller

Spec == Init /\ [][Next]_vars

TypeOK ==
    /\ pc \in {"start", "loaded", "returned"}
    /\ notices \in 0..1
    /\ temp_file \in {"none", "open", "closed"}
    /\ played \in {"no", "blocking", "background"}
    /\ outcome.kind \in {"return", "raise"}

\* ------------------------------------------------------------------------
\* Vocabulary of the properties
\* ------------------------------------------------------------------------

\* The latest call was op and is over.
Called(op) == pc = "returned" /\ call.op = op

\* The result list of the response the latest call received.
ServiceList == response.json.list

\* The written_on texts of ServiceEntries that are in the format
\* YYYY-MM-DDTHH:MM:SS.ffffffZ and name a real instant, with that instant.
ParsableStamps == {GoodStamp, ShortStamp}

ExpectedDatetime(stamp) ==
    CASE stamp = GoodStamp ->
           [year |-> 2020, month |-> 1, day |-> 1, hour |-> 0, minute |-> 0,
            second |-> 0, microsecond |-> 0]
      [] stamp = ShortStamp ->
           [year |-> 2021, month |-> 12, day |-> 31, hour |-> 23,
            minute |-> 59, second |-> 59, microsecond |-> 500000]

WellFormed(entry) == entry.written_on \in ParsableStamps

DocumentedFields ==
    {"word", "definition", "example", "author", "permalink", "upvotes",
     "downvotes", "audio_samples", "written_on", "raw_data", "index"}

\* d is the Definition record of service entry e at position pos.
IsRecordOf(d, e, pos) ==
    /\ DOMAIN d = DocumentedFields
    /\ d.word = e.word
    /\ d.definition = e.definition
    /\ d.example = e.example
    /\ d.author = e.author
    /\ d.permalink = e.permalink
    /\ d.upvotes = e.thumbs_up
    /\ d.downvotes = e.thumbs_down
    /\ d.audio_samples = e.sound_urls
    /\ d.written_on = ExpectedDatetime(e.written_on)
    /\ d.raw_data = e
    /\ d.index = pos

\* ------------------------------------------------------------------------
\* C1
\* ------------------------------------------------------------------------

\* C1: when the service answers 200 with a list of N >= 1 entries (each
\* with a written_on in the service's timestamp format), define(word, None)
\* returns a list of exactly N Definition records in service order, and
\* the record at position i (0 <= i < N) has index i and the fields of the
\* i-th service entry.
C1_AllReturnsEveryEntryInOrder ==
    ( /\ Called("define")
      /\ call.index = NoneSel
      /\ response.status_code = 200
      /\ Len(ServiceList) >= 1
      /\ \A i \in 1..Len(ServiceList) : WellFormed(ServiceList[i]) )
    => /\ outcome.kind = "return"
       /\ outcome.type = "list"
       /\ Len(outcome.value) = Len(ServiceList)
       /\ \A i \in 1..Len(ServiceList) :
             IsRecordOf(outcome.value[i], ServiceList[i], i - 1)

C1_Witness ==
    /\ Called("define")
    /\ call.index = NoneSel
    /\ response.status_code = 200
    /\ Len(ServiceList) >= 2
    /\ ServiceList[1] # ServiceList[2]
    /\ outcome.kind = "return"

\* ------------------------------------------------------------------------
\* C2
\* ------------------------------------------------------------------------

\* C2: for a 200 response with N >= 1 entries and an integer k with
\* 0 <= k < N, define(word, k) returns a single Definition equal, field by
\* field and in its index, to the k-th element of what define(word, None)
\* returns for the same response; its index is k, not 0.
C2_OneEqualsKthOfAll ==
    LET all == define(call.word, NoneSel, response).outcome IN
    ( /\ Called("define")
      /\ call.index.t = "int"
      /\ response.status_code = 200
      /\ call.index.v >= 0
      /\ call.index.v < Len(ServiceList)
      /\ all.kind = "return" )
    => /\ outcome.kind = "return"
       /\ outcome.type = "Definition"
       /\ outcome.value = all.value[call.index.v + 1]
       /\ outcome.value.index = call.index.v
       /\ \A f \in DocumentedFields :
             outcome.value[f] = all.value[call.index.v + 1][f]

C2_Witness ==
    /\ Called("define")
    /\ call.index.t = "int"
    /\ call.index.v >= 1
    /\ call.index.v < Len(ServiceList)
    /\ response.status_code = 200
    /\ outcome.kind = "return"
    /\ outcome.value.index = call.index.v
    /\ define(call.word, NoneSel, response).outcome.kind = "return"

\* ------------------------------------------------------------------------
\* C3
\* ------------------------------------------------------------------------

\* C3: for a 200 response with N >= 1 entries and an integer k with
\* k >= N or k < 0, define(word, k) fails with DefinitionOutOfScopeError
\* carrying that word and k and returns no record; a negative k never
\* selects an entry counted from the end of the list.
C3_OutOfRangeRaisesOutOfScope ==
    ( /\ Called("define")
      /\ call.index.t = "int"
      /\ response.status_code = 200
      /\ Len(ServiceList) >= 1
      /\ (call.index.v >= Len(ServiceList) \/ call.index.v < 0) )
    => /\ outcome.kind = "raise"
       /\ outcome.type = "DefinitionOutOfScopeError"
       /\ outcome.args.word = call.word
       /\ outcome.args.definition_index = call.index.v

\* ------------------------------------------------------------------------
\* C4
\* ------------------------------------------------------------------------

\* C4: when the service answers 200 with an empty list, define fails with
\* DefinitionNotFoundError carrying the word, whatever the selector (an
\* integer in or out of bounds, None, or anything else); the selector is
\* not examined, so DefinitionOutOfScopeError is never raised for an empty
\* list.
C4_EmptyListRaisesNotFound ==
    ( /\ Called("define")
      /\ response.status_code = 200
      /\ ServiceList = <<>> )
    => /\ outcome.kind = "raise"
       /\ outcome.type = "DefinitionNotFoundError"
       /\ outcome.args.word = call.word

C4_Witness ==
    /\ Called("define")
    /\ response.status_code = 200
    /\ ServiceList = <<>>
    /\ call.index.t = "int"
    /\ call.index.v > 0
    /\ outcome.kind = "raise"
    /\ outcome.type = "DefinitionNotFoundError"

\* ------------------------------------------------------------------------
\* C5
\* ------------------------------------------------------------------------

\* C5: in define and in submit_word a status other than 200 makes the call
\* fail with HTTPException naming the word and the status code; define
\* then never decodes the body and produces no record, NotFound or
\* OutOfScope outcome; neither operation issues a second request.
C5_Non200RaisesHttpException ==
    ( /\ (Called("define") \/ Called("submit_word"))
      /\ response.status_code # 200 )
    => /\ outcome.kind = "raise"
       /\ outcome.type = "HTTPException"
       /\ outcome.args.word = call.word
       /\ outcome.args.status_code = response.status_code
       /\ ~json_decoded
       /\ Len(http_log) = 1

C5_Witness ==
    /\ Called("define")
    /\ response.status_code = 404
    /\ Len(ServiceList) >= 1
    /\ call.index.t = "int"
    /\ call.index.v >= 0
    /\ call.index.v < Len(ServiceList)
    /\ outcome.kind = "raise"

\* ------------------------------------------------------------------------
\* C6
\* ------------------------------------------------------------------------

\* The record play_sample works on: its Definition argument, or what
\* define(word) returns for its str argument.
SampleRecord ==
    IF call.src.t = "Definition" THEN Return("Definition", call.src.obj)
    ELSE IF call.src.t = "str"
    THEN define(call.src.s, IntSel(0), response).outcome
    ELSE Raise("TypeError", [message |-> "word must be a string or Definition"])

\* C6: play_sample called with a Definition record (or a word that resolves
\* to one) and a sample index outside the bounds of the record's audio
\* samples fails with DefinitionOutOfScopeError (with no audio samples,
\* every index does); no download and no playback is started.
C6_SampleIndexOutOfBoundsRaisesOutOfScope ==
    ( /\ Called("play_sample")
      /\ "play_sample" \in namespace
      /\ SampleRecord.kind = "return"
      /\ call.index \notin 0..(Len(SampleRecord.value.audio_samples) - 1) )
    => /\ outcome.kind = "raise"
       /\ outcome.type = "DefinitionOutOfScopeError"
       /\ outcome.args.definition_index = call.index
       /\ temp_file = "none"
       /\ played = "no"
       /\ Len(http_log) = (IF call.src.t = "str" THEN 1 ELSE 0)

\* ------------------------------------------------------------------------
\* C7
\* ------------------------------------------------------------------------

\* C7: once play_sample has acquired its temporary file, the file is
\* released on every path out of the call (after playback, after a failed
\* download, after a failed playback): no call ends with the file open.
C7_TempFileReleasedOnEveryPath ==
    Called("play_sample") => temp_file # "open"

\* ------------------------------------------------------------------------
\* C8
\* ------------------------------------------------------------------------

\* C8: for every record built by Definition's constructor, todict() does
\* not fail and returns a dictionary holding every documented field with
\* the value the constructor was given.
C8_TodictHoldsEveryField ==
    ( /\ Called("todict")
      /\ call.self \in FetchedDefinitions )
    => /\ outcome.kind = "return"
       /\ DocumentedFields \subseteq DOMAIN outcome.value
       /\ \A f \in DocumentedFields : outcome.value[f] = call.self[f]

\* ------------------------------------------------------------------------
\* C9
\* ------------------------------------------------------------------------

\* The part of C9 about initialisation: with playsound absent the import
\* completes, and prints at most one notice, and that only when the
\* warning flag is set.
QuietImport ==
    /\ pc # "start" => "define" \in namespace
    /\ notices <= 1
    /\ notices = 1 => WARN_IF_PLAYSOUND_IS_UNAVAILABLE

C10_DefineReturnsRecordsOrRaises ==
    Called("define") =>
        /\ \/ outcome.kind = "raise"
           \/ outcome.type = "Definition"
           \/ /\ outcome.type = "list"
              /\ Len(outcome.value) = Len(ServiceList)
        /\ ( /\ response.status_code = 200
             /\ call.index = NoneSel
             /\ \E i \in 1..Len(ServiceList) : ~WellFormed(ServiceList[i]) )
           => outcome.kind = "raise"

====
